---- MODULE Spec2Model ----
(***************************************************************************)
(* Model of rearc-poc:                                                     *)
(*   - lambda-api/lambda_function.py: the sync trigger `handler`, the      *)
(*     population pull and `sync_bls_pr_to_s3` (specification Spec);       *)
(*   - s3-webhook/main.py: ConnectionManager, the /minio-webhook handler   *)
(*     and the /ws handler as interleaved asyncio tasks (SpecWs), the      *)
(*     /ws handlers alone (SpecReg) and the ConnectionManager methods      *)
(*     called directly (SpecCM);                                           *)
(*   - lambda-api/lambda_function.py: list_bls_files applied to listing    *)
(*     pages of every shape (SpecList).                                    *)
(***************************************************************************)
EXTENDS Integers, Sequences, FiniteSets, TLC

(***************************************************************************)
(* Bounds                                                                  *)
(***************************************************************************)
NumFiles == 2
NumContents == 2
NumSockets == 3
MaxRecords == 2
MaxRegistry == 3
MaxLinks == 3

(***************************************************************************)
(* lambda-api: names, keys, fingerprints                                   *)
(***************************************************************************)
\* File names the remote directory may hold, in the order the listing page
\* prints them (bls-app sorts the directory).
Names == <<"pr.class", "pr.data.0.Current", "pr.series", "pr.txt", "pr.zz">>
Files == {Names[i] : i \in 1..NumFiles}
Contents == 1..NumContents
NoFile == 0

ROOT_URL == "http://bls-app:5000"
\* BASE_PATH "/pub/time.series/pr/" as path segments
BASE_PATH == <<"pub", "time.series", "pr">>
\* prefix=BASE_PATH.lstrip("/") in handler
SyncPrefix == BASE_PATH
\* f"{prefix.rstrip('/')}/honolulu_population_data.json" with prefix="population"
PopKey == <<"population", "honolulu_population_data.json">>
\* Body=json.dumps(data): a payload that is no BLS file content
PopBody == NumContents + 1

\* Key=prefix + filename
KeyOf(prefix, filename) == prefix \o <<filename>>
\* Keys of the bucket outside both prefixes: objects at the bucket's root
RootKeys == {<<f>> : f \in Files}
Keys == {KeyOf(SyncPrefix, f) : f \in Files} \cup {PopKey} \cup RootKeys
NoObj == [body |-> NoFile, etag |-> <<>>]

\* md5_bytes: the hex digest of the content, a string of two tokens
md5_bytes(data) == <<"md5", ToString(data)>>
\* The store's entity tag of an object put in one part: the quoted MD5 digest
Quote(d) == <<"\"">> \o d \o <<"\"">>
EtagOnPut(body) == Quote(md5_bytes(body))
\* An entity tag that is no MD5 of any content (a multipart upload's tag)
ForeignEtag == Quote(<<"multipart", "2">>)

\* str.strip('"'): drop the leading and the trailing quote elements
RECURSIVE LStrip(_)
LStrip(s) == IF s # <<>> /\ Head(s) = "\"" THEN LStrip(Tail(s)) ELSE s
RECURSIVE RStrip(_)
RStrip(s) == IF s # <<>> /\ s[Len(s)] = "\""
             THEN RStrip(SubSeq(s, 1, Len(s) - 1)) ELSE s
\* Mutant: the entity tag is compared as listed, quotes kept
StripQuotes_kept(etag) == etag
StripQuotes(etag) == RStrip(LStrip(etag))

\* Key.startswith(prefix), the filter of list_objects_v2(Prefix=prefix)
HasPrefix(key, prefix) ==
    /\ Len(key) >= Len(prefix)
    /\ SubSeq(key, 1, Len(prefix)) = prefix
\* key.replace(prefix, "", 1) for a key that starts with the prefix
StripPrefix(key, prefix) == SubSeq(key, Len(prefix) + 1, Len(key))

\* An href is the sequence of its "/"-separated segments: a leading ""
\* is a leading slash, a trailing "" a trailing slash.
\* The hrefs of the listing page: the parent directory, then one per file
ParentHref == <<"", "pub", "time.series", "">>
Href(f) == <<"">> \o BASE_PATH \o <<f>>
\* A sort link, as directory listings of other servers carry
QueryHref == <<"?C=N;O=D">>
\* The names of a set of files, in the order the page lists them
IndexOf(n) == CHOOSE i \in 1..Len(Names) : Names[i] = n
RECURSIVE InOrder(_)
InOrder(S) ==
    IF S = {} THEN <<>>
    ELSE LET first == CHOOSE n \in S : \A m \in S : IndexOf(n) <= IndexOf(m)
         IN  <<first>> \o InOrder(S \ {first})
ListingPage(rem) ==
    LET present == InOrder({f \in Files : rem[f] # NoFile})
    IN  <<ParentHref>> \o [i \in 1..Len(present) |-> Href(present[i])]

\* `not href or href.endswith("/") or href.startswith("?")`
SkippedHref(href) ==
    \/ href = <<>>
    \/ href[Len(href)] = ""
    \/ Head(href) = Head(QueryHref)
\* os.path.basename(href): the last segment
Basename(href) == href[Len(href)]
\* Mutant: a relative href is resolved against the listing page's URL
UrlJoin_page(root, href) ==
    IF Head(href) = "" THEN <<root>> \o Tail(href) ELSE <<root>> \o BASE_PATH \o href

\* urljoin(ROOT_URL, href): an absolute path replaces the root's path, a
\* relative one is resolved against the root
UrlJoin(root, href) ==
    IF Head(href) = "" THEN <<root>> \o Tail(href) ELSE <<root>> \o href

\* The loop of list_bls_files over the <a> tags of a page: {filename: url};
\* a later link of the same file name overwrites an earlier one
ParseListing(hrefs) ==
    LET kept == {i \in 1..Len(hrefs) : ~SkippedHref(hrefs[i])}
        last(n) == CHOOSE i \in kept :
                      /\ Basename(hrefs[i]) = n
                      /\ \A j \in kept : Basename(hrefs[j]) = n => j <= i
    IN  [n \in {Basename(hrefs[i]) : i \in kept} |-> UrlJoin(ROOT_URL, hrefs[last(n)])]

\* list_bls_files on a successful fetch of the page bls-app serves
ListBlsFiles(rem) == ParseListing(ListingPage(rem))

\* The hrefs a listing page may carry: none or empty, the parent directory,
\* a sort link, a file by absolute path, a file by relative path
Hrefs ==
    {<<>>, ParentHref, QueryHref} \cup {Href(f) : f \in Files} \cup {<<f>> : f \in Files}
Pages == UNION {[1..n -> Hrefs] : n \in 0..MaxLinks}

\* list_s3_objects on a successful listing: {filename: etag_without_quotes}
ListS3Objects(st, prefix) ==
    LET ks == {k \in DOMAIN st : HasPrefix(k, prefix) /\ st[k] # NoObj}
    IN  [n \in {StripPrefix(k, prefix)[1] : k \in ks} |->
            StripQuotes(st[KeyOf(prefix, n)].etag)]

\* What the file server answers to GET url: the file of that name under
\* BASE_PATH, or NoFile (404) when there is none
Download(rem, url) ==
    IF /\ Len(url) = Len(BASE_PATH) + 2
       /\ SubSeq(url, 2, Len(url) - 1) = BASE_PATH
       /\ url[Len(url)] \in DOMAIN rem
    THEN rem[url[Len(url)]]
    ELSE NoFile

\* Mutant: a file is skipped whenever the store lists its name
Unchanged_byName(s3files, filename, content) == filename \in DOMAIN s3files

\* Mutant: a file is skipped whenever the store lists its content's
\* fingerprint, under whatever name
Unchanged_byContent(s3files, filename, content) ==
    \E n \in DOMAIN s3files : s3files[n] = md5_bytes(content)

\* `filename in s3_files and s3_files[filename] == content_md5`
Unchanged(s3files, filename, content) ==
    /\ filename \in DOMAIN s3files
    /\ s3files[filename] = md5_bytes(content)

\* f"Error pulling population data: {str(e)}" and f"Error syncing BLS PR data: {str(e)}"
PullMessage(e) == <<"Error pulling population data: ", e>>
\* Mutant: the second except block reuses the first one's text
SyncMessage_copied(e) == <<"Error pulling population data: ", e>>
SyncMessage(e) == <<"Error syncing BLS PR data: ", e>>
DoneMessage == <<"Sync completed.">>

(***************************************************************************)
(* State                                                                   *)
(***************************************************************************)
VARIABLES
    \* --- lambda-api ---
    remote,        \* the file server's directory: file name -> content or NoFile
    bucketExists,  \* whether the bucket is in list_buckets()
    store,         \* the bucket: key -> [body, etag] or NoObj
    pc,            \* position of the handler invocation
    bls_files,     \* sync_bls_pr_to_s3's local bls_files
    s3_files,      \* sync_bls_pr_to_s3's local s3_files
    todo,          \* file names the upload loop has still to visit, in order
    content,       \* the upload loop's local content (NoFile: none downloaded)
    deltodo,       \* file names the delete loop has still to visit, in order
    putCount,      \* key -> number of put_object calls issued in this invocation
    delCount,      \* key -> number of delete_object calls issued in this invocation
    skipped,       \* file names the upload loop skipped as unchanged
    response,      \* the handler's return value, [statusCode, message]
    failedAt,      \* the call that raised in this invocation, or "none"
    store0,        \* the bucket as it was when sync_bls_pr_to_s3 was entered
    cleanPrev,     \* the last invocation returned 200 and the remote is unchanged since
    afterClean,    \* cleanPrev as it was when this invocation started
    prevRemote,    \* the directory the invocation before this one synced the
                   \* store to when it returned 200, else NoSync
    page,          \* the <a> hrefs of a listing page handed to list_bls_files
    \* --- s3-webhook ---
    active_connections, \* manager.active_connections, a list of sockets
    wsPc,          \* socket -> position of its /ws handler: "absent" (no request
                   \* yet), "accepting", "receiving", "closed" (disconnect
                   \* returned), "ended" (the task ended on an exception)
    hookPc,        \* position of the /minio-webhook handler
    records,       \* the records the handler's loop has still to visit (head: current)
    msg,           \* the handler's local msg
    idx,           \* broadcast's list iterator: how many elements it has yielded
    target,        \* the connection broadcast is sending to
    hookResponse,  \* the webhook request's answer
    calls,         \* the messages manager.broadcast was called with in this request
    delivered,     \* socket -> send_text calls that returned in the current broadcast
    regAtStart,    \* the registered sockets when the current broadcast started
    bcast,         \* the current broadcast: "none", "running", "returned", "raised"
    failedSock,    \* the socket whose send_text raised in this request, or NoSock
    cmCall,        \* the last direct ConnectionManager call, [op, arg, outcome]
    payload        \* data.get("Records", []) of the request being handled

lambdaVars == <<remote, bucketExists, store, pc, bls_files, s3_files, todo, content,
                deltodo, putCount, delCount, skipped, response, failedAt, store0,
                cleanPrev, afterClean, prevRemote, page>>

wsVars == <<active_connections, wsPc, hookPc, records, msg, idx, target,
            hookResponse, calls, delivered, regAtStart, bcast, failedSock,
            cmCall, payload>>

vars == <<lambdaVars, wsVars>>

\* No earlier invocation is known to have synced the store
NoSync == [f \in Files |-> NoFile - 1]

NoResponse == [statusCode |-> 0, message |-> <<>>]
ZeroCount == [k \in Keys |-> 0]
EmptyMap == [n \in {} |-> 0]

\* str(e) of the exception a failed call raises
ErrText(call) == <<"error in ", call>>

\* Objects the bucket may hold before the first invocation: the tag is the
\* quoted MD5 of the body, or a tag that is no MD5 (a multipart upload)
StoreEntries ==
    {[body |-> c, etag |-> EtagOnPut(c)] : c \in Contents}
    \cup {[body |-> 1, etag |-> ForeignEtag]}

\* An object at the bucket's root, put by somebody else
RootObj == [body |-> 1, etag |-> EtagOnPut(1)]

InitLambda ==
    /\ remote \in [Files -> Contents \cup {NoFile}]
    /\ bucketExists \in BOOLEAN
    /\ \E under \in [Files -> StoreEntries \cup {NoObj}] :
        store = [k \in Keys |->
                    IF ~bucketExists \/ k = PopKey THEN NoObj
                    ELSE IF k \in RootKeys THEN RootObj
                    ELSE under[k[Len(k)]]]
    /\ pc = "idle"
    /\ bls_files = EmptyMap
    /\ s3_files = EmptyMap
    /\ todo = <<>>
    /\ content = NoFile
    /\ deltodo = <<>>
    /\ putCount = ZeroCount
    /\ delCount = ZeroCount
    /\ skipped = {}
    /\ response = NoResponse
    /\ failedAt = "none"
    /\ store0 = store
    /\ cleanPrev = FALSE
    /\ afterClean = FALSE
    /\ prevRemote = NoSync


(***************************************************************************)
(* lambda-api: one handler invocation, call by call                        *)
(***************************************************************************)
\* An exception leaves the handler (no try block around the call)
Raise(call) ==
    /\ pc' = "raised"
    /\ failedAt' = call
    /\ cleanPrev' = FALSE

\* An except block returns statusCode 500
Return500(call, text) ==
    /\ pc' = "returned"
    /\ failedAt' = call
    /\ response' = [statusCode |-> 500, message |-> text]
    /\ cleanPrev' = FALSE

\* handler is invoked: locals of the previous invocation are gone
Invoke ==
    /\ pc \in {"idle", "returned", "raised"}
    /\ pc' = "list_buckets"
    /\ bls_files' = EmptyMap
    /\ s3_files' = EmptyMap
    /\ todo' = <<>>
    /\ content' = NoFile
    /\ deltodo' = <<>>
    /\ putCount' = ZeroCount
    /\ delCount' = ZeroCount
    /\ skipped' = {}
    /\ response' = NoResponse
    /\ failedAt' = "none"
    /\ store0' = store
    /\ afterClean' = cleanPrev
    /\ prevRemote' = IF cleanPrev THEN remote
                     ELSE IF pc = "idle" THEN prevRemote ELSE NoSync
    /\ UNCHANGED <<remote, bucketExists, store, cleanPrev>>
    /\ UNCHANGED page
    /\ UNCHANGED wsVars

\* The file server's directory changes between two invocations: a file is
\* added, removed or rewritten (a rename is a removal and an addition). The
\* finished invocation's locals and return value are gone by then.
RemoteChange ==
    /\ pc \in {"idle", "returned", "raised"}
    /\ \E f \in Files, c \in Contents \cup {NoFile} :
        /\ c # remote[f]
        /\ remote' = [remote EXCEPT ![f] = c]
    /\ pc' = "idle"
    /\ bls_files' = EmptyMap
    /\ s3_files' = EmptyMap
    /\ todo' = <<>>
    /\ content' = NoFile
    /\ deltodo' = <<>>
    /\ putCount' = ZeroCount
    /\ delCount' = ZeroCount
    /\ skipped' = {}
    /\ response' = NoResponse
    /\ failedAt' = "none"
    /\ store0' = store
    /\ afterClean' = FALSE
    /\ cleanPrev' = FALSE
    /\ prevRemote' = IF cleanPrev THEN remote
                     ELSE IF pc = "idle" THEN prevRemote ELSE NoSync
    /\ UNCHANGED <<bucketExists, store>>
    /\ UNCHANGED page
    /\ UNCHANGED wsVars

\* create_s3_bucket_if_not_exists
CreateBucketIfNotExists ==
    /\ pc = "list_buckets"
    /\ \/ /\ bucketExists' = TRUE
          /\ pc' = "pull_get"
          /\ UNCHANGED <<failedAt, cleanPrev>>
       \/ /\ \E call \in {"list_buckets"} \cup
                            (IF bucketExists THEN {} ELSE {"create_bucket"}) :
                Raise(call)
          /\ UNCHANGED bucketExists
    /\ UNCHANGED <<remote, store, bls_files, s3_files, todo, content, deltodo,
                   putCount, delCount, skipped, response, store0, afterClean>>
    /\ UNCHANGED <<prevRemote, page>>
    /\ UNCHANGED wsVars

\* pull_population_data_to_s3: client.get, raise_for_status, response.json()
PullGet ==
    /\ pc = "pull_get"
    /\ \/ /\ pc' = "pull_put"
          /\ UNCHANGED <<response, failedAt, cleanPrev>>
       \/ Return500("population_get", PullMessage(ErrText("population_get")))
    /\ UNCHANGED <<remote, bucketExists, store, bls_files, s3_files, todo, content,
                   deltodo, putCount, delCount, skipped, store0, afterClean>>
    /\ UNCHANGED <<prevRemote, page>>
    /\ UNCHANGED wsVars

\* pull_population_data_to_s3: s3.put_object(Key=s3_key, Body=json.dumps(data))
PullPut ==
    /\ pc = "pull_put"
    /\ \/ /\ store' = [store EXCEPT ![PopKey] =
                          [body |-> PopBody, etag |-> EtagOnPut(PopBody)]]
          /\ putCount' = [putCount EXCEPT ![PopKey] = @ + 1]
          /\ pc' = "list_remote"
          /\ UNCHANGED <<response, failedAt, cleanPrev>>
       \/ /\ Return500("population_put", PullMessage(ErrText("population_put")))
          /\ UNCHANGED <<store, putCount>>
    /\ UNCHANGED <<remote, bucketExists, bls_files, s3_files, todo, content,
                   deltodo, delCount, skipped, store0, afterClean>>
    /\ UNCHANGED <<prevRemote, page>>
    /\ UNCHANGED wsVars

\* Mutant: a failed listing fetch is taken for an empty listing
SyncListRemote_swallowed ==
    /\ pc = "list_remote"
    /\ store0' = store
    /\ \/ /\ bls_files' = ListBlsFiles(remote)
          /\ UNCHANGED failedAt
       \/ /\ bls_files' = EmptyMap
          /\ failedAt' = "list_remote"
    /\ pc' = "list_store"
    /\ UNCHANGED <<remote, bucketExists, store, s3_files, todo, content, deltodo,
                   putCount, delCount, skipped, response, cleanPrev, afterClean>>
    /\ UNCHANGED <<prevRemote, page>>
    /\ UNCHANGED wsVars

\* handler: entering sync_bls_pr_to_s3; bls_files = list_bls_files()
\* (httpx.get(BASE_URL) and raise_for_status raise on failure)
SyncListRemote ==
    /\ pc = "list_remote"
    /\ store0' = store
    /\ \/ /\ bls_files' = ListBlsFiles(remote)
          /\ pc' = "list_store"
          /\ UNCHANGED <<response, failedAt, cleanPrev>>
       \/ /\ Return500("list_remote", SyncMessage(ErrText("list_remote")))
          /\ UNCHANGED bls_files
    /\ UNCHANGED <<remote, bucketExists, store, s3_files, todo, content, deltodo,
                   putCount, delCount, skipped, afterClean>>
    /\ UNCHANGED <<prevRemote, page>>
    /\ UNCHANGED wsVars

\* s3_files = list_s3_objects(s3, bucket, prefix); then the upload loop starts
SyncListStore ==
    /\ pc = "list_store"
    /\ \/ /\ s3_files' = ListS3Objects(store, SyncPrefix)
          /\ todo' = InOrder(DOMAIN bls_files)
          /\ pc' = "upload_loop"
          /\ UNCHANGED <<response, failedAt, cleanPrev>>
       \/ /\ Return500("list_store", SyncMessage(ErrText("list_store")))
          /\ UNCHANGED <<s3_files, todo>>
    /\ UNCHANGED <<remote, bucketExists, store, bls_files, content, deltodo,
                   putCount, delCount, skipped, store0, afterClean>>
    /\ UNCHANGED <<prevRemote, page>>
    /\ UNCHANGED wsVars

\* Mutant: a failed download is skipped and the loop goes on
SyncDownload_continue ==
    /\ pc = "upload_loop"
    /\ todo # <<>>
    /\ \/ /\ Download(remote, bls_files[Head(todo)]) # NoFile
          /\ content' = Download(remote, bls_files[Head(todo)])
          /\ pc' = "compare"
          /\ UNCHANGED <<failedAt, todo>>
       \/ /\ failedAt' = "download"
          /\ todo' = Tail(todo)
          /\ UNCHANGED <<content, pc>>
    /\ UNCHANGED <<remote, bucketExists, store, bls_files, s3_files, deltodo,
                   putCount, delCount, skipped, store0, afterClean, response,
                   cleanPrev, prevRemote, page>>
    /\ UNCHANGED wsVars

\* r = httpx.get(url); r.raise_for_status(); content = r.content
SyncDownload ==
    /\ pc = "upload_loop"
    /\ todo # <<>>
    /\ \/ /\ Download(remote, bls_files[Head(todo)]) # NoFile
          /\ content' = Download(remote, bls_files[Head(todo)])
          /\ pc' = "compare"
          /\ UNCHANGED <<response, failedAt, cleanPrev>>
       \/ /\ Return500("download", SyncMessage(ErrText("download")))
          /\ UNCHANGED content
    /\ UNCHANGED <<remote, bucketExists, store, bls_files, s3_files, todo, deltodo,
                   putCount, delCount, skipped, store0, afterClean>>
    /\ UNCHANGED <<prevRemote, page>>
    /\ UNCHANGED wsVars

\* if filename in s3_files and s3_files[filename] == content_md5: continue
SyncSkip ==
    /\ pc = "compare"
    /\ Unchanged(s3_files, Head(todo), content)
    /\ skipped' = skipped \cup {Head(todo)}
    /\ todo' = Tail(todo)
    /\ content' = NoFile
    /\ pc' = "upload_loop"
    /\ UNCHANGED <<remote, bucketExists, store, bls_files, s3_files, deltodo,
                   putCount, delCount, response, failedAt, store0, cleanPrev,
                   afterClean>>
    /\ UNCHANGED <<prevRemote, page>>
    /\ UNCHANGED wsVars

\* Mutant: the object is put under the bare file name, without the prefix
SyncPut_bareKey ==
    /\ pc = "compare"
    /\ ~Unchanged(s3_files, Head(todo), content)
    /\ LET key == <<Head(todo)>> IN
       /\ putCount' = [putCount EXCEPT ![key] = @ + 1]
       /\ \/ /\ store' = [store EXCEPT ![key] =
                             [body |-> content, etag |-> EtagOnPut(content)]]
             /\ todo' = Tail(todo)
             /\ content' = NoFile
             /\ pc' = "upload_loop"
             /\ UNCHANGED <<response, failedAt, cleanPrev>>
          \/ /\ Return500("put_object", SyncMessage(ErrText("put_object")))
             /\ UNCHANGED <<store, todo, content>>
    /\ UNCHANGED <<remote, bucketExists, bls_files, s3_files, deltodo, delCount,
                   skipped, store0, afterClean, prevRemote, page>>
    /\ UNCHANGED wsVars

\* s3.put_object(Bucket=bucket, Key=prefix + filename, Body=BytesIO(content))
SyncPut ==
    /\ pc = "compare"
    /\ ~Unchanged(s3_files, Head(todo), content)
    /\ LET key == KeyOf(SyncPrefix, Head(todo)) IN
       /\ putCount' = [putCount EXCEPT ![key] = @ + 1]
       /\ \/ /\ store' = [store EXCEPT ![key] =
                             [body |-> content, etag |-> EtagOnPut(content)]]
             /\ todo' = Tail(todo)
             /\ content' = NoFile
             /\ pc' = "upload_loop"
             /\ UNCHANGED <<response, failedAt, cleanPrev>>
          \/ /\ Return500("put_object", SyncMessage(ErrText("put_object")))
             /\ UNCHANGED <<store, todo, content>>
    /\ UNCHANGED <<remote, bucketExists, bls_files, s3_files, deltodo, delCount,
                   skipped, store0, afterClean>>
    /\ UNCHANGED <<prevRemote, page>>
    /\ UNCHANGED wsVars

\* Mutant: the delete loop visits nothing
SyncStartDelete_none ==
    /\ pc = "upload_loop"
    /\ todo = <<>>
    /\ deltodo' = <<>>
    /\ pc' = "delete_loop"
    /\ UNCHANGED <<remote, bucketExists, store, bls_files, s3_files, todo, content,
                   putCount, delCount, skipped, response, failedAt, store0,
                   cleanPrev, afterClean, prevRemote, page>>
    /\ UNCHANGED wsVars

\* The upload loop is exhausted: `for filename in s3_files` starts
SyncStartDelete ==
    /\ pc = "upload_loop"
    /\ todo = <<>>
    /\ deltodo' = InOrder(DOMAIN s3_files)
    /\ pc' = "delete_loop"
    /\ UNCHANGED <<remote, bucketExists, store, bls_files, s3_files, todo, content,
                   putCount, delCount, skipped, response, failedAt, store0,
                   cleanPrev, afterClean>>
    /\ UNCHANGED <<prevRemote, page>>
    /\ UNCHANGED wsVars

\* `if filename not in bls_files` is false: next file
SyncKeep ==
    /\ pc = "delete_loop"
    /\ deltodo # <<>>
    /\ Head(deltodo) \in DOMAIN bls_files
    /\ deltodo' = Tail(deltodo)
    /\ UNCHANGED <<remote, bucketExists, store, pc, bls_files, s3_files, todo,
                   content, putCount, delCount, skipped, response, failedAt,
                   store0, cleanPrev, afterClean>>
    /\ UNCHANGED <<prevRemote, page>>
    /\ UNCHANGED wsVars

\* s3.delete_object(Bucket=bucket, Key=prefix + filename)
SyncDelete ==
    /\ pc = "delete_loop"
    /\ deltodo # <<>>
    /\ Head(deltodo) \notin DOMAIN bls_files
    /\ LET key == KeyOf(SyncPrefix, Head(deltodo)) IN
       /\ delCount' = [delCount EXCEPT ![key] = @ + 1]
       /\ \/ /\ store' = [store EXCEPT ![key] = NoObj]
             /\ deltodo' = Tail(deltodo)
             /\ UNCHANGED <<pc, response, failedAt, cleanPrev>>
          \/ /\ Return500("delete_object", SyncMessage(ErrText("delete_object")))
             /\ UNCHANGED <<store, deltodo>>
    /\ UNCHANGED <<remote, bucketExists, bls_files, s3_files, todo, content,
                   putCount, skipped, store0, afterClean>>
    /\ UNCHANGED <<prevRemote, page>>
    /\ UNCHANGED wsVars

\* print("Sync complete."); handler returns statusCode 200
SyncComplete ==
    /\ pc = "delete_loop"
    /\ deltodo = <<>>
    /\ pc' = "returned"
    /\ response' = [statusCode |-> 200, message |-> DoneMessage]
    /\ cleanPrev' = TRUE
    /\ UNCHANGED <<remote, bucketExists, store, bls_files, s3_files, todo, content,
                   deltodo, putCount, delCount, skipped, failedAt, store0,
                   afterClean>>
    /\ UNCHANGED <<prevRemote, page>>
    /\ UNCHANGED wsVars

NextLambda ==
    \/ Invoke
    \/ RemoteChange
    \/ CreateBucketIfNotExists
    \/ PullGet
    \/ PullPut
    \/ SyncListRemote
    \/ SyncListStore
    \/ SyncDownload
    \/ SyncSkip
    \/ SyncPut
    \/ SyncStartDelete
    \/ SyncKeep
    \/ SyncDelete
    \/ SyncComplete


(***************************************************************************)
(* s3-webhook: sockets, records, messages                                  *)
(***************************************************************************)
Sockets == 1..NumSockets
NoSock == 0

\* The records a payload may carry: {"s3": {"bucket": {"name"}, "object": {"key"}}}
\* or a record that lacks those fields
WellFormedRecords ==
    {[wellformed |-> TRUE, bucket |-> "data", key |-> k] : k \in {"pr.txt", "pop.json"}}
MalformedRecord == [wellformed |-> FALSE, bucket |-> "", key |-> ""]
RecordKinds == WellFormedRecords \cup {MalformedRecord}
Payloads == UNION {[1..n -> RecordKinds] : n \in 0..MaxRecords}

\* f"New file dropped: {file_name} in bucket '{bucket}'"
Message(record) == <<"New file dropped: ", record.key, " in bucket '", record.bucket, "'">>

Range(l) == {l[i] : i \in 1..Len(l)}
\* Mutant: the first element is dropped, whichever it is
ListRemove_head(l, x) == Tail(l)

\* list.remove(x): drops the first element equal to x (the caller checks
\* membership: remove raises ValueError when there is none)
RECURSIVE ListRemove(_, _)
ListRemove(l, x) ==
    IF l = <<>> THEN <<>>
    ELSE IF Head(l) = x THEN Tail(l)
    ELSE <<Head(l)>> \o ListRemove(Tail(l), x)

NoDelivery == [w \in Sockets |-> 0]
NoCall == [op |-> "none", arg |-> NoSock, outcome |-> "none", before |-> <<>>]

InitWs ==
    /\ active_connections = <<>>
    /\ wsPc = [w \in Sockets |-> "absent"]
    /\ hookPc = "idle"
    /\ records = <<>>
    /\ msg = <<>>
    /\ idx = 0
    /\ target = NoSock
    /\ hookResponse = "none"
    /\ calls = <<>>
    /\ delivered = NoDelivery
    /\ regAtStart = {}
    /\ bcast = "none"
    /\ failedSock = NoSock
    /\ cmCall = NoCall
    /\ payload = <<>>

\* asyncio runs one task at a time and switches only where a task awaits:
\* the webhook handler is suspended (or not running) in these positions
HookSuspended == hookPc \in {"idle", "json", "sending"}

(***************************************************************************)
(* s3-webhook: websocket_endpoint, one task per socket                     *)
(***************************************************************************)
\* A browser opens /ws: manager.connect starts and awaits websocket.accept()
WsRequest(w) ==
    /\ HookSuspended
    /\ wsPc[w] = "absent"
    /\ wsPc' = [wsPc EXCEPT ![w] = "accepting"]
    /\ UNCHANGED <<active_connections, hookPc, records, msg, idx, target,
                   hookResponse, calls, delivered, regAtStart, bcast, failedSock,
                   cmCall>>
    /\ UNCHANGED payload
    /\ UNCHANGED lambdaVars

\* accept() returns: active_connections.append(websocket), then the handler
\* awaits receive_text(); or accept() raises and the handler ends
WsAccept(w) ==
    /\ HookSuspended
    /\ wsPc[w] = "accepting"
    /\ \/ /\ active_connections' = Append(active_connections, w)
          /\ wsPc' = [wsPc EXCEPT ![w] = "receiving"]
       \/ /\ wsPc' = [wsPc EXCEPT ![w] = "ended"]
          /\ UNCHANGED active_connections
    /\ UNCHANGED <<hookPc, records, msg, idx, target, hookResponse, calls,
                   delivered, regAtStart, bcast, failedSock, cmCall>>
    /\ UNCHANGED payload
    /\ UNCHANGED lambdaVars

\* receive_text() returns a frame: the loop awaits the next one
WsReceiveText(w) ==
    /\ HookSuspended
    /\ wsPc[w] = "receiving"
    /\ UNCHANGED <<prevRemote, page>>
    /\ UNCHANGED wsVars
    /\ UNCHANGED payload
    /\ UNCHANGED lambdaVars

\* receive_text() raises WebSocketDisconnect: manager.disconnect(websocket)
WsDisconnect(w) ==
    /\ HookSuspended
    /\ wsPc[w] = "receiving"
    /\ IF w \in Range(active_connections)
       THEN /\ active_connections' = ListRemove(active_connections, w)
            /\ wsPc' = [wsPc EXCEPT ![w] = "closed"]
       ELSE /\ wsPc' = [wsPc EXCEPT ![w] = "ended"]
            /\ UNCHANGED active_connections
    /\ UNCHANGED <<hookPc, records, msg, idx, target, hookResponse, calls,
                   delivered, regAtStart, bcast, failedSock, cmCall>>
    /\ UNCHANGED payload
    /\ UNCHANGED lambdaVars

\* receive_text() raises something else (a binary frame has no "text"): the
\* except clause does not match and the handler ends
WsReceiveError(w) ==
    /\ HookSuspended
    /\ wsPc[w] = "receiving"
    /\ wsPc' = [wsPc EXCEPT ![w] = "ended"]
    /\ UNCHANGED <<active_connections, hookPc, records, msg, idx, target,
                   hookResponse, calls, delivered, regAtStart, bcast, failedSock,
                   cmCall>>
    /\ UNCHANGED payload
    /\ UNCHANGED lambdaVars

(***************************************************************************)
(* s3-webhook: minio_webhook and ConnectionManager.broadcast               *)
(***************************************************************************)
\* POST /minio-webhook arrives: the handler awaits request.json()
HookRequest ==
    /\ hookPc = "idle"
    /\ hookPc' = "json"
    /\ UNCHANGED <<active_connections, wsPc, records, msg, idx, target,
                   hookResponse, calls, delivered, regAtStart, bcast, failedSock,
                   cmCall>>
    /\ UNCHANGED payload
    /\ UNCHANGED lambdaVars

\* data = await request.json(): the body parses to a payload, or json() raises
HookJson ==
    /\ hookPc = "json"
    /\ \/ /\ \E p \in Payloads :
                /\ payload' = p
                /\ records' = p
          /\ hookPc' = "records"
          /\ UNCHANGED hookResponse
       \/ /\ hookPc' = "done"
          /\ hookResponse' = "error500"
          /\ UNCHANGED <<records, payload>>
    /\ UNCHANGED <<active_connections, wsPc, msg, idx, target, calls,
                   delivered, regAtStart, bcast, failedSock, cmCall>>
    /\ UNCHANGED lambdaVars

\* The answer has been sent: the handler's task and its locals are gone
HookEnd ==
    /\ hookPc = "done"
    /\ hookPc' = "idle"
    /\ payload' = <<>>
    /\ records' = <<>>
    /\ msg' = <<>>
    /\ idx' = 0
    /\ target' = NoSock
    /\ hookResponse' = "none"
    /\ calls' = <<>>
    /\ delivered' = NoDelivery
    /\ regAtStart' = {}
    /\ bcast' = "none"
    /\ failedSock' = NoSock
    /\ UNCHANGED <<active_connections, wsPc, cmCall>>
    /\ UNCHANGED lambdaVars

\* `for record in data.get("Records", [])`: the next record, or the return
HookNextRecord ==
    /\ hookPc = "records"
    /\ IF records = <<>>
       THEN /\ hookPc' = "done"
            /\ hookResponse' = "success"
            /\ UNCHANGED <<msg, idx, calls, delivered, regAtStart, bcast>>
       ELSE IF ~Head(records).wellformed
       THEN \* record["s3"]["bucket"]["name"] raises KeyError
            /\ hookPc' = "done"
            /\ hookResponse' = "error500"
            /\ UNCHANGED <<msg, idx, calls, delivered, regAtStart, bcast>>
       ELSE \* await manager.broadcast(msg): the for loop makes its iterator
            /\ msg' = Message(Head(records))
            /\ calls' = Append(calls, msg')
            /\ idx' = 0
            /\ delivered' = NoDelivery
            /\ regAtStart' = Range(active_connections)
            /\ bcast' = "running"
            /\ hookPc' = "iter"
            /\ UNCHANGED hookResponse
    /\ UNCHANGED <<active_connections, wsPc, records, target, failedSock, cmCall>>
    /\ UNCHANGED payload
    /\ UNCHANGED lambdaVars

\* `for connection in self.active_connections`: the list iterator yields the
\* element at its index, or is exhausted when the index has reached len
BroadcastNext ==
    /\ hookPc = "iter"
    /\ IF idx < Len(active_connections)
       THEN /\ target' = active_connections[idx + 1]
            /\ idx' = idx + 1
            /\ hookPc' = "sending"
            /\ UNCHANGED <<records, bcast>>
       ELSE /\ target' = NoSock
            /\ bcast' = "returned"
            /\ records' = Tail(records)
            /\ hookPc' = "records"
            /\ UNCHANGED idx
    /\ UNCHANGED <<active_connections, wsPc, msg, hookResponse, calls, delivered,
                   regAtStart, failedSock, cmCall>>
    /\ UNCHANGED payload
    /\ UNCHANGED lambdaVars

\* await connection.send_text(message) returns, or raises: nothing catches
\* the exception in broadcast or in minio_webhook
BroadcastSend ==
    /\ hookPc = "sending"
    /\ \/ /\ wsPc[target] = "receiving"
          /\ delivered' = [delivered EXCEPT ![target] = @ + 1]
          /\ hookPc' = "iter"
          /\ UNCHANGED <<hookResponse, bcast, failedSock>>
       \/ /\ failedSock' = target
          /\ bcast' = "raised"
          /\ hookResponse' = "error500"
          /\ hookPc' = "done"
          /\ UNCHANGED delivered
    /\ UNCHANGED <<active_connections, wsPc, records, msg, idx, target, calls,
                   regAtStart, cmCall>>
    /\ UNCHANGED payload
    /\ UNCHANGED lambdaVars

NextWs ==
    \/ \E w \in Sockets : WsRequest(w)
    \/ \E w \in Sockets : WsAccept(w)
    \/ \E w \in Sockets : WsReceiveText(w)
    \/ \E w \in Sockets : WsDisconnect(w)
    \/ \E w \in Sockets : WsReceiveError(w)
    \/ HookRequest
    \/ HookJson
    \/ HookNextRecord
    \/ BroadcastNext
    \/ BroadcastSend
    \/ HookEnd

(***************************************************************************)
(* s3-webhook: ConnectionManager's methods called one after another        *)
(***************************************************************************)
\* manager.connect(websocket): accept() returns and the socket is appended,
\* or accept() raises
CMConnect(w) ==
    /\ Len(active_connections) < MaxRegistry
    /\ \/ /\ active_connections' = Append(active_connections, w)
          /\ cmCall' = [op |-> "connect", arg |-> w, outcome |-> "returned",
                        before |-> active_connections]
       \/ /\ UNCHANGED active_connections
          /\ cmCall' = [op |-> "connect", arg |-> w, outcome |-> "raised",
                        before |-> active_connections]
    /\ UNCHANGED <<wsPc, hookPc, records, msg, idx, target, hookResponse, calls,
                   delivered, regAtStart, bcast, failedSock>>
    /\ UNCHANGED payload
    /\ UNCHANGED lambdaVars

\* manager.disconnect(websocket): self.active_connections.remove(websocket)
CMDisconnect(w) ==
    /\ IF w \in Range(active_connections)
       THEN /\ active_connections' = ListRemove(active_connections, w)
            /\ cmCall' = [op |-> "disconnect", arg |-> w, outcome |-> "returned",
                          before |-> active_connections]
       ELSE /\ UNCHANGED active_connections
            /\ cmCall' = [op |-> "disconnect", arg |-> w, outcome |-> "ValueError",
                          before |-> active_connections]
    /\ UNCHANGED <<wsPc, hookPc, records, msg, idx, target, hookResponse, calls,
                   delivered, regAtStart, bcast, failedSock>>
    /\ UNCHANGED payload
    /\ UNCHANGED lambdaVars

\* manager.broadcast(message) with no other task running: every send
\* returns, or one of them raises
CMBroadcast ==
    /\ \/ cmCall' = [op |-> "broadcast", arg |-> NoSock, outcome |-> "returned",
                     before |-> active_connections]
       \/ \E i \in 1..Len(active_connections) :
            cmCall' = [op |-> "broadcast", arg |-> active_connections[i],
                       outcome |-> "raised", before |-> active_connections]
    /\ UNCHANGED <<active_connections, wsPc, hookPc, records, msg, idx, target,
                   hookResponse, calls, delivered, regAtStart, bcast, failedSock>>
    /\ UNCHANGED payload
    /\ UNCHANGED lambdaVars

NextCM ==
    \/ \E w \in Sockets : CMConnect(w)
    \/ \E w \in Sockets : CMDisconnect(w)
    \/ CMBroadcast

(***************************************************************************)
(* Specifications                                                          *)
(***************************************************************************)
\* A fresh deployment of lambda-api: no bucket, an empty remote directory
InitLambdaFresh ==
    /\ InitLambda
    /\ ~bucketExists
    /\ remote = [f \in Files |-> NoFile]

\* lambda-api: handler invocations over every remote directory and bucket
Init == InitLambda /\ page = <<>> /\ InitWs
Next == NextLambda
Spec == Init /\ [][Next]_vars

\* s3-webhook: the /ws tasks and the webhook handler, interleaved at awaits
InitWebhook == InitLambdaFresh /\ page = <<>> /\ InitWs
SpecWs == InitWebhook /\ [][NextWs]_vars

\* s3-webhook: the /ws tasks alone, no webhook request in flight (the webhook
\* handler reads active_connections and never writes it)
NextReg ==
    \/ \E w \in Sockets : WsRequest(w)
    \/ \E w \in Sockets : WsAccept(w)
    \/ \E w \in Sockets : WsReceiveText(w)
    \/ \E w \in Sockets : WsDisconnect(w)
    \/ \E w \in Sockets : WsReceiveError(w)
SpecReg == InitWebhook /\ [][NextReg]_vars

\* s3-webhook: ConnectionManager driven by direct calls
SpecCM == InitWebhook /\ [][NextCM]_vars

\* lambda-api: list_bls_files over the <a> tags of a fetched page
ListParse ==
    /\ pc = "idle"
    /\ bls_files' = ParseListing(page)
    /\ pc' = "listed"
    /\ UNCHANGED <<remote, bucketExists, store, s3_files, todo, content, deltodo,
                   putCount, delCount, skipped, response, failedAt, store0,
                   cleanPrev, afterClean, prevRemote, page>>
    /\ UNCHANGED wsVars

InitList == InitLambdaFresh /\ page \in Pages /\ InitWs
NextList == ListParse
SpecList == InitList /\ [][NextList]_vars

(***************************************************************************)
(* lambda-api: what one invocation did, read from the state                *)
(***************************************************************************)
PullCalls == {"population_get", "population_put"}
ListingCalls == {"list_remote", "list_store"}
PerFileCalls == {"download", "put_object", "delete_object"}
SyncCalls == ListingCalls \cup PerFileCalls

\* keys(R): the file names the remote directory holds
RemoteNames == {f \in Files : remote[f] # NoFile}
\* keys(S): the file names the store held under the prefix when the sync began
StoreNames0 == {f \in Files : store0[KeyOf(SyncPrefix, f)] # NoObj}
\* The file names that got a put_object / a delete_object call in this invocation
Uploaded == {f \in Files : putCount[KeyOf(SyncPrefix, f)] > 0}
Deleted == {f \in Files : delCount[KeyOf(SyncPrefix, f)] > 0}
\* The diff the data model defines, from the remote directory and the store as
\* they were when the sync began
PlanUpload ==
    {f \in RemoteNames :
        \/ f \notin StoreNames0
        \/ store0[KeyOf(SyncPrefix, f)].etag # EtagOnPut(remote[f])}
PlanUnchanged == RemoteNames \ PlanUpload
PlanDelete == StoreNames0 \ RemoteNames
\* sync_bls_pr_to_s3 issued no call that mutates the store
NoSyncMutationCall ==
    /\ \A f \in Files : putCount[KeyOf(SyncPrefix, f)] = 0
    /\ \A k \in Keys : delCount[k] = 0
    /\ putCount[PopKey] <= 1
SyncSucceeded == pc = "returned" /\ response.statusCode = 200

\* C1: when the remote listing fetch or the store listing fails, the sync
\* aborts with a failure, has issued no put_object and no delete_object call,
\* and the bucket is as it was when the sync began.
C1_ListingFailureAborts ==
    failedAt \in ListingCalls =>
        /\ pc = "returned"
        /\ response.statusCode = 500
        /\ NoSyncMutationCall
        /\ store = store0

\* The remote listing failed while the store held a file under the prefix
C1_Witness ==
    /\ failedAt = "list_remote"
    /\ StoreNames0 # {}
    /\ RemoteNames = {}

\* C2: in a sync run in which no call failed, the files that got a put are
\* the remote files absent from the store or stored under another
\* fingerprint, the files skipped are the remote files stored under the same
\* fingerprint, the files that got a delete are the store files absent
\* remotely; the three sets are pairwise disjoint, upload and skipped cover
\* the remote names, and no key got more than one put or delete.
C2_SyncPlanPartition ==
    /\ \A k \in Keys : putCount[k] <= 1 /\ delCount[k] <= 1
    /\ Uploaded \cap skipped = {}
    /\ Uploaded \cap Deleted = {}
    /\ skipped \cap Deleted = {}
    /\ SyncSucceeded =>
        /\ Uploaded = PlanUpload
        /\ skipped = PlanUnchanged
        /\ Deleted = PlanDelete
        /\ Uploaded \cup skipped = RemoteNames
        /\ Deleted = StoreNames0 \ RemoteNames

\* A run without failure that put one file and deleted another
C2_Witness ==
    /\ SyncSucceeded
    /\ Uploaded # {}
    /\ Deleted # {}
    /\ \E f \in Uploaded : f \in StoreNames0

\* C3: an invocation that follows one that returned 200, with no change of
\* the remote directory in between, issues no put_object and no
\* delete_object call in its sync (the store tags each object put with the
\* MD5 of its bytes).
C3_SecondRunIdle == afterClean => NoSyncMutationCall

\* The second of two successive runs has finished and skipped every file
C3_Witness ==
    /\ afterClean
    /\ SyncSucceeded
    /\ Cardinality(RemoteNames) = NumFiles
    /\ skipped = RemoteNames

\* C4 (as stated): a failed download, put or delete of one file leaves the
\* sync running: the call returns success, every other remote file is put or
\* skipped as the diff requires and every store file absent remotely is
\* deleted.
C4_PerFileFailureIsolated ==
    (pc = "returned" /\ failedAt \in PerFileCalls) =>
        /\ response.statusCode = 200
        /\ \A f \in PlanUpload : f \in Uploaded
        /\ \A f \in PlanDelete : f \in Deleted

\* C10: the handler returns 500 exactly when a call of the population pull
\* or of the file sync raised, with the message of that step around the
\* error text, and 200 exactly when both steps ran to their end; a sync
\* failure leaves the population object the pull put in place, and a pull
\* failure is answered before the sync step makes any call.
C10_HandlerStatus ==
    /\ pc # "returned" => response = NoResponse
    /\ pc = "returned" =>
        /\ response.statusCode \in {200, 500}
        /\ response.statusCode = 500 <=> failedAt \in PullCalls \cup SyncCalls
        /\ response.statusCode = 200 <=> failedAt = "none"
        /\ failedAt \in PullCalls =>
            /\ response.message = <<"Error pulling population data: ", ErrText(failedAt)>>
            /\ NoSyncMutationCall
            /\ store = store0
        /\ failedAt \in SyncCalls =>
            /\ response.message = <<"Error syncing BLS PR data: ", ErrText(failedAt)>>
            /\ putCount[PopKey] = 1
            /\ store[PopKey].body = PopBody
        /\ failedAt = "none" =>
            /\ response.message = <<"Sync completed.">>
            /\ putCount[PopKey] = 1
            /\ store[PopKey].body = PopBody
            /\ todo = <<>>
            /\ deltodo = <<>>

\* The sync step failed after the population pull had succeeded
C10_Witness ==
    /\ pc = "returned"
    /\ failedAt = "list_store"
    /\ response.statusCode = 500
    /\ store[PopKey] # NoObj

(***************************************************************************)
(* s3-webhook: claims                                                      *)
(***************************************************************************)
Registered == Range(active_connections)

\* C5 (as stated): when a send of a broadcast fails, every other connection
\* that was registered when the broadcast started has got the message and the
\* failing connection is no longer in the registry.
C5_SendFailureIsolated ==
    bcast = "raised" =>
        /\ failedSock \notin Registered
        /\ \A w \in (regAtStart \cap Registered) \ {failedSock} :
              wsPc[w] = "receiving" => delivered[w] = 1

\* C6 (as stated): while a broadcast is part-way through its iteration
\* (suspended in a send), no connection is added to or removed from
\* active_connections.
C6_RegistryExclusive ==
    [][hookPc = "sending" => active_connections' = active_connections]_vars

\* C7 (as stated): when a broadcast in which no send failed has returned,
\* every connection registered at its start and still registered has got the
\* message exactly once.
C7_DeliveredExactlyOnce ==
    (bcast = "returned" /\ failedSock = NoSock) =>
        \A w \in regAtStart \cap Registered : delivered[w] = 1

\* C8 (as stated): disconnect called with a handle that is not in the
\* registry returns without an error and leaves the registry as it was.
C8_DisconnectIdempotent ==
    (cmCall.op = "disconnect" /\ cmCall.arg \notin Range(cmCall.before)) =>
        /\ cmCall.outcome = "returned"
        /\ active_connections = cmCall.before

\* C9 (as stated): when a send to a subscriber has failed, the webhook handler
\* has still broadcast every remaining record of the event and answers
\* {"status": "success"}.
C9_SendFailureNotPropagated ==
    (hookPc = "done" /\ failedSock # NoSock) =>
        /\ hookResponse = "success"
        /\ records = <<>>

\* The records of the request's payload are all well-formed
AllWellFormed == \A i \in 1..Len(payload) : payload[i].wellformed

\* C11 (as stated): when the handler of an event with k well-formed records
\* has answered, it has made exactly k broadcast calls, and the i-th call's
\* message carries the object key and the bucket name of the i-th record.
C11_OneBroadcastPerRecord ==
    (hookPc = "done" /\ hookResponse # "none" /\ AllWellFormed) =>
        /\ Len(calls) = Len(payload)
        /\ \A i \in 1..Len(calls) :
            /\ calls[i][2] = payload[i].key
            /\ calls[i][4] = payload[i].bucket

\* C12 (as stated): a request whose payload has a record without
\* s3.bucket.name or s3.object.key is answered with a client error (a 4xx
\* status).
C12_MalformedRejected ==
    (hookPc = "done" /\ ~AllWellFormed /\ failedSock = NoSock) =>
        hookResponse \in {"error400", "error422"}

(***************************************************************************)
(* lambda-api: two runs, convergence, the order of the passes, the prefix  *)
(***************************************************************************)
\* Between the previous run and this one the remote file `old` was renamed
\* to `new`, its bytes unchanged
Renamed(old, new) ==
    /\ prevRemote # NoSync
    /\ old # new
    /\ prevRemote[old] # NoFile
    /\ remote[old] = NoFile
    /\ prevRemote[new] = NoFile
    /\ remote[new] = prevRemote[old]

\* C13: when a run follows a run that returned 200 and a remote file has
\* been renamed in between with identical bytes, the second run deletes the
\* object under the old name and puts an object under the new name; the new
\* name is not skipped as unchanged.
C13_RenameIsDeleteAndPut ==
    SyncSucceeded =>
        \A old, new \in Files :
            Renamed(old, new) =>
                /\ old \in Deleted
                /\ store[KeyOf(SyncPrefix, old)] = NoObj
                /\ new \in Uploaded
                /\ new \notin skipped
                /\ store[KeyOf(SyncPrefix, new)].body = remote[new]

\* A run has completed after a rename with identical bytes
C13_Witness ==
    /\ SyncSucceeded
    /\ \E old, new \in Files : Renamed(old, new)

\* The file names the store holds under the prefix
StoreNames == {f \in Files : store[KeyOf(SyncPrefix, f)] # NoObj}

\* C17: after a run of sync_bls_pr_to_s3 in which no call failed, the file
\* names stored under the prefix are the remote file names, and each stored
\* object's content is the content its remote URL served during the run.
C17_StoreConverges ==
    SyncSucceeded =>
        /\ StoreNames = RemoteNames
        /\ \A f \in RemoteNames :
               store[KeyOf(SyncPrefix, f)].body = Download(remote, bls_files[f])

\* A run that uploaded a file, skipped a file or deleted a file has completed
\* on a store that differed from the remote directory
C17_Witness ==
    /\ SyncSucceeded
    /\ Uploaded # {}
    /\ Deleted # {}
    /\ \E f \in RemoteNames : store0[KeyOf(SyncPrefix, f)].body # remote[f]

\* The remote files the upload pass had dealt with before the one it is at
EarlierPut == Uploaded \ (IF todo = <<>> THEN {} ELSE {Head(todo)})

\* C18: a delete_object call is issued only when the upload pass has visited
\* every remote file; when a download or a put_object has failed, the run
\* has issued no delete_object call, the objects it would have deleted are
\* as they were, and the objects put for earlier files are in the store.
C18_DeleteAfterUploadPass ==
    /\ (\E k \in Keys : delCount[k] > 0) => todo = <<>>
    /\ failedAt \in {"download", "put_object"} =>
        /\ \A k \in Keys : delCount[k] = 0
        /\ \A f \in PlanDelete : store[KeyOf(SyncPrefix, f)] = store0[KeyOf(SyncPrefix, f)]
        /\ \A f \in EarlierPut :
               store[KeyOf(SyncPrefix, f)].body = remote[f]

\* A download or a put has failed after an earlier file had been put
C18_Witness ==
    /\ failedAt \in {"download", "put_object"}
    /\ EarlierPut # {}

\* The keys of the bucket that do not start with the sync's prefix
OutsidePrefix == {k \in Keys : ~HasPrefix(k, SyncPrefix)}
\* The handler is inside sync_bls_pr_to_s3
InSync == pc \in {"list_remote", "list_store", "upload_loop", "compare", "delete_loop"}

\* C19: no step of sync_bls_pr_to_s3 issues a put_object or a delete_object
\* for a key that does not start with its prefix, nor changes the object
\* under such a key (the population object, objects at the bucket's root).
C19_PrefixFrame ==
    [][InSync =>
        \A k \in OutsidePrefix :
            /\ store'[k] = store[k]
            /\ putCount'[k] = putCount[k]
            /\ delCount'[k] = delCount[k]]_vars

\* A run that put and deleted objects under the prefix has completed, and
\* the population object and the root objects are in the bucket
C19_Witness ==
    /\ SyncSucceeded
    /\ Uploaded # {}
    /\ Deleted # {}
    /\ store[PopKey].body = PopBody
    /\ \A k \in RootKeys : store[k] = RootObj

(***************************************************************************)
(* lambda-api: list_bls_files                                              *)
(***************************************************************************)
\* The positions of the page's hrefs that are non-empty, do not end with "/"
\* and do not start with "?"
KeptLinks ==
    {i \in 1..Len(page) :
        /\ page[i] # <<>>
        /\ page[i][Len(page[i])] # ""
        /\ page[i][1] # QueryHref[1]}

\* C16: the map list_bls_files returns has exactly the final path segments
\* of the kept hrefs as its keys (so no skipped href contributes one), and
\* each value is a kept href of that final segment resolved against the site
\* root: the root followed by the href's path, whether the href is absolute
\* or relative.
C16_ListingMap ==
    pc = "listed" =>
        /\ DOMAIN bls_files = {page[i][Len(page[i])] : i \in KeptLinks}
        /\ \A n \in DOMAIN bls_files :
            \E i \in KeptLinks :
                /\ page[i][Len(page[i])] = n
                /\ bls_files[n] =
                       <<ROOT_URL>> \o (IF page[i][1] = "" THEN Tail(page[i]) ELSE page[i])

\* A page with a skipped link and with two different kept links of one file
\* name, one of them relative, has been parsed
C16_Witness ==
    /\ pc = "listed"
    /\ KeptLinks # 1..Len(page)
    /\ \E i, j \in KeptLinks :
        /\ page[i] # page[j]
        /\ page[i][Len(page[i])] = page[j][Len(page[j])]

(***************************************************************************)
(* s3-webhook: the registry over a connection's lifetime                   *)
(***************************************************************************)
\* C14: in every reachable state active_connections holds each socket at
\* most once, and a socket whose disconnect call has returned is not in it.
C14_RegistryUnique ==
    /\ \A i, j \in 1..Len(active_connections) :
            active_connections[i] = active_connections[j] => i = j
    /\ \A w \in Sockets : wsPc[w] = "closed" => w \notin Registered

\* disconnect has returned for a socket that was not the first of the list,
\* and other sockets are still registered
C14_Witness ==
    \E w \in Sockets :
        /\ wsPc[w] = "closed"
        /\ Len(active_connections) >= 2
        /\ \E v \in Registered : v > w /\ active_connections[1] = v

\* C15 (as stated): a socket is in active_connections only while its /ws
\* handler is in the receive loop: once the handler has ended, by a
\* disconnect or by a failure of the receive loop, the socket is registered
\* no more.
C15_RegisteredWhileConnected ==
    \A w \in Registered : wsPc[w] = "receiving"

====
